---- MODULE Spec2Model ----
(***************************************************************************)
(* WebSocketStream ponyfill (src/src/index.ts): an adapter that bridges an *)
(* event-driven WebSocket to a ReadableStream / WritableStream pair and to *)
(* the two promises `opened` and `closed`.                                 *)
(*                                                                         *)
(* The adapter's own code is the constructor (index.ts:83-120) and close() *)
(* (index.ts:145-147).  The socket and the two streams are collaborators:  *)
(* the socket is an environment that delivers open / message / error /     *)
(* close events and records send() and close() calls; the streams follow   *)
(* the producer/consumer contract the adapter's callbacks are written for. *)
(***************************************************************************)
EXTENDS Integers, Sequences, FiniteSets, TLC

\* ------------------------------------------------------------------ bounds
MaxMsgs == 2          \* message events delivered by the socket
MaxCalls == 4         \* calls the adapter's users make after construction

\* --------------------------------------------------------------- constants
None == "undefined"                       \* the JavaScript value undefined
NoCode == 0                               \* an omitted (undefined) close code

ALLOWED_PROTOCOLS == {"ws:", "wss:", "http:", "https:"}

\* Addresses handed to the constructor, named by their scheme as written;
\* "" stands for a string that does not parse as a URL at all.
Addresses == {"WSS:", "ftp:", "FILE:", ""}

\* The adapter never inspects a payload or a chunk, so the i-th message and
\* the i-th write carry a value of their own: any loss, repeat or swap shows.
Payload(i) == <<"message", i>>
Chunk(i) == <<"chunk", i>>
NoData == <<"undefined", 0>>               \* no payload (undefined)
AbortReasons == {"X"}                     \* reasons given to writer.abort
CloseOptions ==                           \* options given to close()
    { [closeCode |-> NoCode, reason |-> None],
      [closeCode |-> 3000, reason |-> "bye"] }
Negotiated ==                             \* what the server may select
    { [protocol |-> "", extensions |-> ""],
      [protocol |-> "mqtt", extensions |-> "deflate"] }
RemoteCloses ==                           \* close events the peer may cause
    { [code |-> 1001, reason |-> "Going away"] }
SendError == "SendError"                  \* the failure a send() may raise

VARIABLES
    ctor,          \* outcome of the constructor: "none", "ok", "SyntaxError", "TypeError"
    address,       \* the address the constructor was given
    factoryCalls,  \* how many times the WebSocket factory was invoked
    signal,        \* the supplied AbortSignal: [supplied, aborted, listener]
    wsState,       \* the socket: "none", "connecting", "open", "closing", "closed"
    wsNegotiated,  \* the socket's protocol / extensions fields
    binaryType,    \* the socket's binaryType field
    listeners,     \* listeners registered on the socket
    closeRequests, \* arguments of every ws.close() call, in order
    sent,          \* arguments of every ws.send() call, in order
    events,        \* socket events delivered so far, in order
    opened,        \* the `opened` promise
    closed,        \* the `closed` promise
    handlerErrors, \* exceptions that escaped a socket event listener
    rState,        \* inbound stream: "none", "readable", "closed", "errored"
    rQueue,        \* inbound stream's queue of chunks
    rCloseRequested, \* inbound controller.close() was accepted
    rPending,      \* read requests waiting for a chunk
    readLog,       \* results of the consumer's reads, in settlement order
    rCancelled,    \* the consumer cancelled the inbound stream
    wState,        \* outbound stream: "none", "writable", "erroring", "errored", "closed"
    wStoredError,  \* outbound stream's stored error
    wQueue,        \* chunks queued behind the in-flight write
    wInFlight,     \* the in-flight sink write: [chunk, threw], NoWrite when none
    wClose,        \* producer close: "none", "queued", "inflight", "done", "rejected"
    wAbort,        \* producer abort: "none", "pending", "inflight", "done"
    wCompletion,   \* writer.closed: [status, reason]
    wResults,      \* settled writes, in order: [chunk, ok, error]
    closeCalls     \* close() calls issued so far

socketVars == <<wsState, wsNegotiated, binaryType, listeners, closeRequests, sent, events>>
promiseVars == <<opened, closed>>
inboundVars == <<rState, rQueue, rCloseRequested, rPending, readLog, rCancelled>>
outboundVars == <<wState, wStoredError, wQueue, wInFlight, wClose, wAbort, wCompletion, wResults>>
ctorVars == <<ctor, address, factoryCalls>>
vars == <<ctorVars, signal, socketVars, promiseVars, handlerErrors, inboundVars,
          outboundVars, closeCalls>>

\* ------------------------------------------------------------ pure helpers

\* new URL(url).protocol: the scheme, lower-cased; "TypeError" when the
\* string does not parse.
URLProtocol(url) ==
    CASE url = "" -> "TypeError"
      [] url = "WSS:" -> "wss:"
      [] url = "FILE:" -> "file:"
      [] OTHER -> url

\* A promise's resolve / reject: the first settlement wins.
Settle(promise, outcome) ==
    IF promise.status = "pending" THEN outcome ELSE promise

OpenedPending == [status |-> "pending", protocol |-> None, extensions |-> None]
OpenedResolved(ws) ==
    [status |-> "resolved", protocol |-> ws.protocol, extensions |-> ws.extensions]
OpenedRejected ==
    [status |-> "rejected", protocol |-> None, extensions |-> None]

ClosedPending == [status |-> "pending", closeCode |-> NoCode, reason |-> None]
ClosedResolved(event) ==
    [status |-> "resolved", closeCode |-> event.code, reason |-> event.reason]

CompletionPending == [status |-> "pending", reason |-> None]
CompletionResolved == [status |-> "resolved", reason |-> None]
CompletionRejected(reason) == [status |-> "rejected", reason |-> reason]

\* Mutant: a close request restarts the closing handshake of a socket that
\* has already closed.
ReadyStateAfterClose_Reopens(state) ==
    IF state = "none" THEN state ELSE "closing"

\* ws.close(code, reason) as the socket takes it: a no-op unless the socket
\* is still connecting or open.
ReadyStateAfterClose(state) ==
    IF state \in {"connecting", "open"} THEN "closing" ELSE state

CloseRequest(code, reason) == [code |-> code, reason |-> reason]

\* The close event a socket reports for a close request it was given.
Echo(req) ==
    [code |-> IF req.code = NoCode THEN 1000 ELSE req.code,
     reason |-> IF req.reason = None THEN "" ELSE req.reason]

Event(type, data, code, reason) ==
    [type |-> type, data |-> data, code |-> code, reason |-> reason]

Range(seq) == { seq[i] : i \in 1..Len(seq) }

Repeat(x, n) == [i \in 1..n |-> x]

Delivered(type) == \E i \in 1..Len(events) : events[i].type = type

\* Payloads of the message events delivered so far, in order.
RECURSIVE MessagesOf(_)
MessagesOf(evs) ==
    IF evs = <<>> THEN <<>>
    ELSE IF Head(evs).type = "message"
         THEN <<Head(evs).data>> \o MessagesOf(Tail(evs))
         ELSE MessagesOf(Tail(evs))

NoWrite == [chunk |-> NoData, threw |-> FALSE]

\* Writes the producer has issued so far
WritesIssued == Len(wResults) + Len(wQueue) + (IF wInFlight = NoWrite THEN 0 ELSE 1)

\* Calls made so far by the adapter's users: close(), the signal's abort,
\* reads and the cancel of the inbound stream, writes, close and abort of the
\* outbound stream.
UserCalls ==
    closeCalls + (IF signal.aborted THEN 1 ELSE 0)
    + Len(readLog) + rPending + (IF rCancelled THEN 1 ELSE 0)
    + WritesIssued + (IF wClose = "none" THEN 0 ELSE 1) + (IF wAbort = "none" THEN 0 ELSE 1)

\* Promise reactions queued by the outbound stream have not run yet; socket
\* events are tasks and wait for them.
MicrotaskPending ==
    wInFlight # NoWrite \/ wClose = "inflight" \/ wAbort = "inflight"

\* ------------------------------------------------- inbound stream (readable)
\* The inbound stream as one value; handlers map it to its next value.
\* threw: the controller call raised a TypeError.
Inbound ==
    [state |-> rState, queue |-> rQueue, closeRequested |-> rCloseRequested,
     pending |-> rPending, log |-> readLog, threw |-> FALSE]

\* What a read settles with: a chunk, completion, or the stream's failure.
DoneResult == [value |-> NoData, done |-> TRUE, failed |-> FALSE]
ChunkResult(v) == [value |-> v, done |-> FALSE, failed |-> FALSE]
FailedResult == [value |-> NoData, done |-> FALSE, failed |-> TRUE]

\* The stream closes: every waiting read completes with done.
ReadableStreamClose(r) ==
    [r EXCEPT !.state = "closed",
              !.log = r.log \o Repeat(DoneResult, r.pending),
              !.pending = 0]

CanCloseOrEnqueue(r) == r.state = "readable" /\ ~r.closeRequested

\* controller.enqueue(chunk): hands the chunk to the oldest waiting read, or
\* queues it; raises when the stream is closed or closing.
ControllerEnqueue(r, chunk) ==
    IF ~CanCloseOrEnqueue(r) THEN [r EXCEPT !.threw = TRUE]
    ELSE IF r.pending > 0
         THEN [r EXCEPT !.log = Append(r.log, ChunkResult(chunk)),
                        !.pending = r.pending - 1]
         ELSE [r EXCEPT !.queue = Append(r.queue, chunk)]

\* controller.close(): closes at once when nothing is queued, else once the
\* queue has been read; raises when the stream is closed or closing.
ControllerClose(r) ==
    IF ~CanCloseOrEnqueue(r) THEN [r EXCEPT !.threw = TRUE]
    ELSE IF r.queue = <<>>
         THEN ReadableStreamClose([r EXCEPT !.closeRequested = TRUE])
         ELSE [r EXCEPT !.closeRequested = TRUE]

\* Mutant: the message listener applies its own flow control and drops a
\* message that arrives while another is still queued.
OnMessage_Backpressure(r, data) ==
    IF r.queue # <<>> THEN r ELSE ControllerEnqueue(r, data)

\* The message listener of the inbound stream.
OnMessage(r, data) == ControllerEnqueue(r, data)

\* Mutant: the close listener ends the inbound stream at once and drops
\* what is still queued.
OnCloseReadable_Discards(r) ==
    IF r.state = "readable" THEN [ReadableStreamClose(r) EXCEPT !.queue = <<>>] ELSE r

\* The close listener of the inbound stream: try { controller.close() } catch {}
OnCloseReadable(r) == [ControllerClose(r) EXCEPT !.threw = FALSE]

\* reader.read()
ReaderRead(r) ==
    IF r.state = "closed" THEN [r EXCEPT !.log = Append(r.log, DoneResult)]
    ELSE IF r.state = "errored" THEN [r EXCEPT !.log = Append(r.log, FailedResult)]
    ELSE IF r.queue # <<>>
         THEN LET r1 == [r EXCEPT !.log = Append(r.log, ChunkResult(Head(r.queue))),
                                  !.queue = Tail(r.queue)]
              IN IF r1.closeRequested /\ r1.queue = <<>>
                 THEN ReadableStreamClose(r1) ELSE r1
         ELSE [r EXCEPT !.pending = r.pending + 1]

\* reader.cancel(): closes the stream and drops what is queued.  The
\* stream's cancel hook runs only when the stream was still readable.
ReaderCancel(r) ==
    IF r.state = "readable"
    THEN [ReadableStreamClose(r) EXCEPT !.queue = <<>>]
    ELSE r

SetInbound(r) ==
    /\ rState' = r.state
    /\ rQueue' = r.queue
    /\ rCloseRequested' = r.closeRequested
    /\ rPending' = r.pending
    /\ readLog' = r.log

\* ------------------------------------------------ outbound stream (writable)
\* The outbound stream as one value, together with the socket fields its sink
\* callbacks touch.
Outbound ==
    [state |-> wState, storedError |-> wStoredError, queue |-> wQueue,
     inFlight |-> wInFlight, close |-> wClose, abort |-> wAbort,
     completion |-> wCompletion, results |-> wResults,
     wsState |-> wsState, closeRequests |-> closeRequests, sent |-> sent]

WriteOk(chunk) == [chunk |-> chunk, ok |-> TRUE, error |-> None]
WriteFailed(chunk, error) == [chunk |-> chunk, ok |-> FALSE, error |-> error]

\* this._ws.close(code, reason) issued from a stream callback
SocketClose(o, code, reason) ==
    [o EXCEPT !.closeRequests = Append(@, CloseRequest(code, reason)),
              !.wsState = ReadyStateAfterClose(@)]

\* Mutant: the write callback hands the chunk to send() twice.
SinkWrite_SendsTwice(o, chunk, threw) ==
    [o EXCEPT !.sent = @ \o <<chunk, chunk>>,
              !.inFlight = [chunk |-> chunk, threw |-> threw]]

\* Mutant: the write callback closes the socket when the send raises.
SinkWrite_ClosesOnFailure(o, chunk, threw) ==
    LET o1 == IF threw THEN SocketClose(o, NoCode, None) ELSE o
    IN [o1 EXCEPT !.sent = Append(@, chunk),
                  !.inFlight = [chunk |-> chunk, threw |-> threw]]

\* The sink's write callback: chunk => this._ws.send(chunk).  threw: the
\* send raised, which the stream learns when the callback's promise settles.
SinkWrite(o, chunk, threw) ==
    [o EXCEPT !.sent = Append(@, chunk),
              !.inFlight = [chunk |-> chunk, threw |-> threw]]

\* Mutant: the close callback completes without closing the socket.
SinkClose_LeavesSocketOpen(o) == [o EXCEPT !.close = "inflight"]

\* The sink's close callback: () => this._ws.close()
SinkClose(o) == [SocketClose(o, NoCode, None) EXCEPT !.close = "inflight"]

\* Mutant: the abort callback closes the socket without the reason.
SinkAbort_DropsReason(o, reason) ==
    [SocketClose(o, NoCode, None) EXCEPT !.abort = "inflight"]

\* The sink's abort callback: reason => this._ws.close(undefined, reason)
SinkAbort(o, reason) == [SocketClose(o, NoCode, reason) EXCEPT !.abort = "inflight"]

RejectCloseAndClosedPromise(o) ==
    [o EXCEPT !.close = IF @ = "queued" THEN "rejected" ELSE @,
              !.completion = Settle(@, CompletionRejected(o.storedError))]

\* erroring -> errored: queued writes fail with the stored error; a pending
\* abort request now runs the sink's abort callback.
FinishErroring(o) ==
    LET rejected == [i \in 1..Len(o.queue) |-> WriteFailed(o.queue[i], o.storedError)]
        o1 == [o EXCEPT !.state = "errored", !.results = @ \o rejected, !.queue = <<>>]
    IN IF o.abort = "pending" THEN SinkAbort(o1, o.storedError)
       ELSE RejectCloseAndClosedPromise(o1)

StartErroring(o, reason) ==
    LET o1 == [o EXCEPT !.state = "erroring", !.storedError = reason]
    IN IF o.inFlight = NoWrite /\ o.close # "inflight" THEN FinishErroring(o1) ELSE o1

\* Runs the next queued operation when none is in flight.
AdvanceQueue(o, threw) ==
    IF o.inFlight # NoWrite \/ o.close = "inflight" THEN o
    ELSE IF o.state = "erroring" THEN FinishErroring(o)
    ELSE IF o.state # "writable" THEN o
    ELSE IF o.queue # <<>>
         THEN SinkWrite([o EXCEPT !.queue = Tail(@)], Head(o.queue), threw)
    ELSE IF o.close = "queued" THEN SinkClose(o)
    ELSE o

\* writer.write(chunk)
WriterWrite(o, chunk, threw) ==
    IF o.state = "errored"
    THEN [o EXCEPT !.results = Append(@, WriteFailed(chunk, o.storedError))]
    ELSE IF o.state = "closed" \/ o.close \in {"queued", "inflight"}
    THEN [o EXCEPT !.results = Append(@, WriteFailed(chunk, "TypeError"))]
    ELSE IF o.state = "erroring"
    THEN [o EXCEPT !.results = Append(@, WriteFailed(chunk, o.storedError))]
    ELSE AdvanceQueue([o EXCEPT !.queue = Append(@, chunk)], threw)

\* The promise of the sink's write callback settles.
FinishWrite(o, threw) ==
    LET w == o.inFlight
    IN IF w.threw
       THEN LET o1 == [o EXCEPT !.results = Append(@, WriteFailed(w.chunk, SendError)),
                                !.inFlight = NoWrite]
            IN IF o1.state = "writable" THEN StartErroring(o1, SendError)
               ELSE FinishErroring(o1)
       ELSE AdvanceQueue([o EXCEPT !.results = Append(@, WriteOk(w.chunk)),
                                   !.inFlight = NoWrite], threw)

\* writer.close()
WriterClose(o) ==
    IF o.state \in {"closed", "errored"} \/ o.close \in {"queued", "inflight"} THEN o
    ELSE AdvanceQueue([o EXCEPT !.close = "queued"], FALSE)

\* The promise of the sink's close callback settles.
FinishClose(o) ==
    [o EXCEPT !.close = "done",
              !.state = "closed",
              !.storedError = IF o.state = "erroring" THEN None ELSE @,
              !.abort = IF @ = "pending" THEN "done" ELSE @,
              !.completion = Settle(@, CompletionResolved)]

\* writer.abort(reason)
WriterAbort(o, reason) ==
    IF o.state \in {"closed", "errored"} \/ o.abort # "none" THEN o
    ELSE StartErroring([o EXCEPT !.abort = "pending"], reason)

\* The promise of the sink's abort callback settles.
FinishAbort(o) == RejectCloseAndClosedPromise([o EXCEPT !.abort = "done"])

\* controller.error() on the outbound stream, with no argument
ControllerError(o) ==
    IF o.state = "writable" THEN StartErroring(o, None) ELSE o

\* Mutant: the outbound stream registers no close listener.
OnCloseWritable_Ignores(o) == o

\* The close listener of the outbound stream: () => controller.error()
OnCloseWritable(o) == ControllerError(o)

SetOutbound(o) ==
    /\ wState' = o.state
    /\ wStoredError' = o.storedError
    /\ wQueue' = o.queue
    /\ wInFlight' = o.inFlight
    /\ wClose' = o.close
    /\ wAbort' = o.abort
    /\ wCompletion' = o.completion
    /\ wResults' = o.results
    /\ wsState' = o.wsState
    /\ closeRequests' = o.closeRequests
    /\ sent' = o.sent

\* ------------------------------------------------------ the adapter's code

\* Mutant: the allow-list check lets the ftp: scheme through.
ValidateURL_AllowsFtp(url) ==
    IF URLProtocol(url) = "TypeError" THEN "TypeError"
    ELSE IF URLProtocol(url) \notin (ALLOWED_PROTOCOLS \cup {"ftp:"}) THEN "SyntaxError"
    ELSE "ok"

\* The constructor's check of the address: new URL(url) raises a TypeError on
\* an unparsable string, the allow-list check raises a SyntaxError.
ValidateURL(url) ==
    IF URLProtocol(url) = "TypeError" THEN "TypeError"
    ELSE IF URLProtocol(url) \notin ALLOWED_PROTOCOLS THEN "SyntaxError"
    ELSE "ok"

\* The open listener's resolve({extensions, protocol, readable, writable})
OnOpen(promise, ws) == Settle(promise, OpenedResolved(ws))

\* Mutant: the error listener does not reject.
OnError_Ignored(promise) == promise

\* Mutant: the error listener overrides an outcome already settled.
OnError_Overrides(promise) == OpenedRejected

\* The error listener: () => reject(new Error('WebSocket error'))
OnError(promise) == Settle(promise, OpenedRejected)

\* Mutant: `closed` reports the default code instead of the event's.
OnCloseClosed_DefaultCode(promise, event) ==
    Settle(promise, ClosedResolved([event EXCEPT !.code = 1000]))

\* The close listener of `closed`: resolve({closeCode: event.code, reason: event.reason})
OnCloseClosed(promise, event) == Settle(promise, ClosedResolved(event))

\* Mutant: close() fills in the normal-closure code when none is given.
CloseArguments_DefaultCode(options) ==
    CloseRequest(IF options.closeCode = NoCode THEN 1000 ELSE options.closeCode,
                 options.reason)

\* close({closeCode, reason} = {}): this._ws.close(closeCode, reason)
CloseArguments(options) == CloseRequest(options.closeCode, options.reason)

DefaultCloseOptions == [closeCode |-> NoCode, reason |-> None]

\* Mutant: the abort listener closes with a code and a reason of its own.
AbortListenerArguments_Coded == CloseRequest(1000, "aborted")

\* The signal's abort listener: () => this.close()
AbortListenerArguments == CloseArguments(DefaultCloseOptions)

\* Mutant: the cancel hook forwards a reason to the socket.
CancelArguments_WithReason == CloseRequest(NoCode, "cancelled")

\* The inbound stream's cancel hook: () => this._ws.close()
CancelArguments == CloseRequest(NoCode, None)

\* Mutant: the constructor registers the message listener itself.
ConstructorListeners_WithMessage == {"open", "error", "close:closed", "message"}

\* Mutant: the constructor registers no error listener.
ConstructorListeners_NoError == {"open", "close:closed"}

\* Listeners the constructor registers, and those the streams' start hooks
\* register when the open listener constructs the streams.
ConstructorListeners == {"open", "error", "close:closed"}

\* Mutant: the inbound stream's start hook registers no close listener.
StreamListeners_NoReadableClose == {"message", "close:writable"}

StreamListeners == {"message", "close:readable", "close:writable"}

NoSignal == [supplied |-> FALSE, aborted |-> FALSE, listener |-> FALSE]
NoPromise(pending) == [pending EXCEPT !.status = "none"]

Init ==
    /\ ctor = "none"
    /\ address = None
    /\ factoryCalls = 0
    /\ signal = NoSignal
    /\ wsState = "none"
    /\ wsNegotiated = [protocol |-> None, extensions |-> None]
    /\ binaryType = "none"
    /\ listeners = {}
    /\ closeRequests = <<>>
    /\ sent = <<>>
    /\ events = <<>>
    /\ opened = NoPromise(OpenedPending)
    /\ closed = NoPromise(ClosedPending)
    /\ handlerErrors = 0
    /\ rState = "none"
    /\ rQueue = <<>>
    /\ rCloseRequested = FALSE
    /\ rPending = 0
    /\ readLog = <<>>
    /\ rCancelled = FALSE
    /\ wState = "none"
    /\ wStoredError = None
    /\ wQueue = <<>>
    /\ wInFlight = NoWrite
    /\ wClose = "none"
    /\ wAbort = "none"
    /\ wCompletion = NoPromise(CompletionPending)
    /\ wResults = <<>>
    /\ closeCalls = 0

\* new WebSocketStream(url, {signal})
Construct(url, withSignal) ==
    /\ ctor = "none"
    /\ ctor' = ValidateURL(url)
    /\ address' = url
    /\ IF ValidateURL(url) = "ok"
       THEN /\ signal' = [NoSignal EXCEPT !.supplied = withSignal, !.listener = withSignal]
            /\ factoryCalls' = factoryCalls + 1
            /\ wsState' = "connecting"
            /\ binaryType' = "arraybuffer"
            /\ listeners' = ConstructorListeners
            /\ opened' = OpenedPending
            /\ closed' = ClosedPending
       ELSE /\ signal' = [NoSignal EXCEPT !.supplied = withSignal]
            /\ UNCHANGED <<factoryCalls, wsState, binaryType, listeners, opened, closed>>
    /\ UNCHANGED <<wsNegotiated, closeRequests, sent, events, handlerErrors, inboundVars,
                   outboundVars, closeCalls>>

\* The socket's open event.  The open listener resolves `opened` and
\* constructs both streams, whose start hooks register their listeners.
WsOpen(n) ==
    /\ wsState = "connecting"
    /\ ~MicrotaskPending
    /\ wsState' = "open"
    /\ wsNegotiated' = n
    /\ events' = Append(events, Event("open", NoData, NoCode, None))
    /\ IF "open" \in listeners
       THEN /\ opened' = OnOpen(opened, n)
            /\ rState' = "readable"
            /\ wState' = "writable"
            /\ wCompletion' = CompletionPending
            /\ listeners' = listeners \cup StreamListeners
       ELSE UNCHANGED <<opened, rState, wState, wCompletion, listeners>>
    /\ UNCHANGED <<ctorVars, signal, binaryType, closeRequests, sent, closed, handlerErrors,
                   rQueue, rCloseRequested, rPending, readLog, rCancelled,
                   wStoredError, wQueue, wInFlight, wClose, wAbort, wResults, closeCalls>>

\* The socket's message event: an open socket delivers messages, and so does
\* one that is closing until it fails or closes.
WsMessage(data) ==
    /\ wsState \in {"open", "closing"}
    /\ Delivered("open")
    /\ ~Delivered("error")
    /\ ~MicrotaskPending
    /\ Len(MessagesOf(events)) < MaxMsgs
    /\ events' = Append(events, Event("message", data, NoCode, None))
    /\ IF "message" \in listeners
       THEN LET r == OnMessage(Inbound, data)
            IN /\ SetInbound(r)
               /\ handlerErrors' = handlerErrors + (IF r.threw THEN 1 ELSE 0)
       ELSE UNCHANGED <<rState, rQueue, rCloseRequested, rPending, readLog, handlerErrors>>
    /\ UNCHANGED <<ctorVars, signal, wsState, wsNegotiated, binaryType, listeners,
                   closeRequests, sent, promiseVars, rCancelled, outboundVars, closeCalls>>

\* The socket's error event: the connection has failed and is going down.
WsError ==
    /\ wsState \in {"connecting", "open", "closing"}
    /\ ~Delivered("error")
    /\ ~MicrotaskPending
    /\ wsState' = "closing"
    /\ events' = Append(events, Event("error", NoData, NoCode, None))
    /\ opened' = IF "error" \in listeners THEN OnError(opened) ELSE opened
    /\ UNCHANGED <<ctorVars, signal, wsNegotiated, binaryType, listeners, closeRequests,
                   sent, closed, handlerErrors, inboundVars, outboundVars, closeCalls>>

\* Close events the socket may report: the peer's own, or the answer to a
\* close request it was given.
CloseEvents == RemoteCloses \cup { Echo(req) : req \in Range(closeRequests) }

\* The socket's close event.  A socket that never opened reports an error
\* event before it.
WsClose(ev) ==
    /\ wsState \in {"open", "closing"}
    /\ Delivered("open") \/ Delivered("error")
    /\ ~MicrotaskPending
    /\ ev \in CloseEvents
    /\ events' = Append(events, Event("close", NoData, ev.code, ev.reason))
    /\ closed' = IF "close:closed" \in listeners THEN OnCloseClosed(closed, ev) ELSE closed
    /\ IF "close:readable" \in listeners
       THEN SetInbound(OnCloseReadable(Inbound))
       ELSE UNCHANGED <<rState, rQueue, rCloseRequested, rPending, readLog>>
    /\ IF "close:writable" \in listeners
       THEN SetOutbound(OnCloseWritable([Outbound EXCEPT !.wsState = "closed"]))
       ELSE /\ wsState' = "closed"
            /\ UNCHANGED <<closeRequests, sent, outboundVars>>
    /\ UNCHANGED <<ctorVars, signal, wsNegotiated, binaryType, listeners, opened,
                   handlerErrors, rCancelled, closeCalls>>

\* WebSocketStream.close(options)
Close(options) ==
    /\ ctor = "ok"
    /\ UserCalls < MaxCalls
    /\ closeCalls' = closeCalls + 1
    /\ closeRequests' = Append(closeRequests, CloseArguments(options))
    /\ wsState' = ReadyStateAfterClose(wsState)
    /\ UNCHANGED <<ctorVars, signal, wsNegotiated, binaryType, listeners, sent, events,
                   promiseVars, handlerErrors, inboundVars, outboundVars>>

\* controller.abort() on the supplied signal: the first call fires the abort
\* event, whose one-shot listener calls close(); a signal already aborted
\* fires nothing.
SignalAbort ==
    /\ signal.supplied
    /\ ctor # "none"
    /\ signal.aborted \/ UserCalls < MaxCalls
    /\ signal' = [signal EXCEPT !.aborted = TRUE,
                                !.listener = IF signal.aborted THEN @ ELSE FALSE]
    /\ IF ~signal.aborted /\ signal.listener
       THEN /\ closeRequests' = Append(closeRequests, AbortListenerArguments)
            /\ wsState' = ReadyStateAfterClose(wsState)
       ELSE UNCHANGED <<closeRequests, wsState>>
    /\ UNCHANGED <<ctorVars, wsNegotiated, binaryType, listeners, sent, events,
                   promiseVars, handlerErrors, inboundVars, outboundVars, closeCalls>>

\* reader.read() on the inbound stream
Read ==
    /\ rState # "none"
    /\ UserCalls < MaxCalls
    /\ SetInbound(ReaderRead(Inbound))
    /\ UNCHANGED <<ctorVars, signal, socketVars, promiseVars, handlerErrors, rCancelled,
                   outboundVars, closeCalls>>

\* reader.cancel() on the inbound stream; a stream still readable runs its
\* cancel hook.
Cancel ==
    /\ rState # "none"
    /\ ~rCancelled
    /\ UserCalls < MaxCalls
    /\ rCancelled' = TRUE
    /\ SetInbound(ReaderCancel(Inbound))
    /\ IF rState = "readable"
       THEN /\ closeRequests' = Append(closeRequests, CancelArguments)
            /\ wsState' = ReadyStateAfterClose(wsState)
       ELSE UNCHANGED <<closeRequests, wsState>>
    /\ UNCHANGED <<ctorVars, signal, wsNegotiated, binaryType, listeners, sent, events,
                   promiseVars, handlerErrors, outboundVars, closeCalls>>

\* Frame of the actions of the outbound stream
OutboundFrame ==
    UNCHANGED <<ctorVars, signal, wsNegotiated, binaryType, listeners, events,
                promiseVars, handlerErrors, inboundVars, closeCalls>>

\* writer.write(chunk) on the outbound stream
Write(chunk, threw) ==
    /\ wState # "none"
    /\ UserCalls < MaxCalls
    /\ SetOutbound(WriterWrite(Outbound, chunk, threw))
    /\ OutboundFrame

\* The in-flight write settles and the next queued operation starts.
WriteSettles(threw) ==
    /\ wInFlight # NoWrite
    /\ SetOutbound(FinishWrite(Outbound, threw))
    /\ OutboundFrame

\* writer.close() on the outbound stream
CloseWriter ==
    /\ wState # "none"
    /\ wClose # "none" \/ UserCalls < MaxCalls
    /\ SetOutbound(WriterClose(Outbound))
    /\ OutboundFrame

\* The sink's close callback has returned and its promise settles.
CloseSettles ==
    /\ wClose = "inflight"
    /\ SetOutbound(FinishClose(Outbound))
    /\ OutboundFrame

\* writer.abort(reason) on the outbound stream
Abort(reason) ==
    /\ wState # "none"
    /\ wAbort # "none" \/ UserCalls < MaxCalls
    /\ SetOutbound(WriterAbort(Outbound, reason))
    /\ OutboundFrame

\* The sink's abort callback has returned and its promise settles.
AbortSettles ==
    /\ wAbort = "inflight"
    /\ SetOutbound(FinishAbort(Outbound))
    /\ OutboundFrame

Next ==
    \/ \E url \in Addresses, withSignal \in BOOLEAN : Construct(url, withSignal)
    \/ \E n \in Negotiated : WsOpen(n)
    \/ WsMessage(Payload(Len(MessagesOf(events)) + 1))
    \/ WsError
    \/ \E ev \in CloseEvents : WsClose(ev)
    \/ \E options \in CloseOptions : Close(options)
    \/ SignalAbort
    \/ Read
    \/ Cancel
    \/ \E threw \in BOOLEAN : Write(Chunk(WritesIssued + 1), threw)
    \/ \E threw \in BOOLEAN : WriteSettles(threw)
    \/ CloseWriter
    \/ CloseSettles
    \/ \E reason \in AbortReasons : Abort(reason)
    \/ AbortSettles

Spec == Init /\ [][Next]_vars

\* A socket that was asked to close, or that failed, delivers its close event.
SocketCloses == wsState = "closing" /\ \E ev \in CloseEvents : WsClose(ev)

\* The same program with a fair socket and a running microtask queue: a
\* closing socket eventually delivers its close event, and the promise of a
\* sink callback that has returned eventually settles.
FairSpec ==
    /\ Spec
    /\ WF_vars(SocketCloses)
    /\ WF_vars(\E threw \in BOOLEAN : WriteSettles(threw))
    /\ WF_vars(CloseSettles)
    /\ WF_vars(AbortSettles)

\* ------------------------------------------------------------------ claims

\* Index of the first delivered event of one of the given types, 0 if none.
FirstEvent(types) ==
    LET hits == { i \in 1..Len(events) : events[i].type \in types }
    IN IF hits = {} THEN 0 ELSE CHOOSE i \in hits : \A j \in hits : i <= j

\* C1: for every address whose scheme is not ws:, wss:, http: or https: the
\* constructor fails with the format error (a SyntaxError) and the socket
\* factory is never invoked: no socket exists, no listener is registered on
\* a socket or on the signal, and neither promise exists.
C1_InvalidSchemeFailsBeforeSocket ==
    (ctor # "none" /\ URLProtocol(address) \notin {"ws:", "wss:", "http:", "https:", "TypeError"})
        => /\ ctor = "SyntaxError"
           /\ factoryCalls = 0
           /\ wsState = "none"
           /\ listeners = {}
           /\ ~signal.listener
           /\ opened.status = "none" /\ closed.status = "none"
           /\ closeRequests = <<>> /\ events = <<>>

\* C1 witness: an upper-case scheme outside the allow-list was rejected, and
\* the signal handed to the failed constructor was fired afterwards.
C1_Witness ==
    ctor = "SyntaxError" /\ address = "FILE:" /\ signal.aborted

\* C2: `opened` settles at most once: its outcome is fixed by the first open
\* or error event -- resolved with the socket's protocol and extensions as of
\* the open event, or rejected -- and no later event changes it.
C2_OpenedSettlesOnce ==
    LET i == FirstEvent({"open", "error"})
    IN IF ctor # "ok" THEN opened.status = "none"
       ELSE IF i = 0 THEN opened = OpenedPending
       ELSE IF events[i].type = "open"
            THEN opened = [status |-> "resolved", protocol |-> wsNegotiated.protocol,
                           extensions |-> wsNegotiated.extensions]
            ELSE opened = [status |-> "rejected", protocol |-> None, extensions |-> None]

\* C2 witness: resolved with a negotiated sub-protocol, then a message, an
\* error and the close event were delivered.
C2_Witness ==
    /\ opened.status = "resolved" /\ opened.protocol = "mqtt" /\ opened.extensions = "deflate"
    /\ Delivered("message") /\ Delivered("error") /\ Delivered("close")

\* C3: `closed` settles exactly once, at the socket's first close event, with
\* the code and reason that event reports, whoever initiated the close; until
\* that event nothing settles it.
C3_ClosedSettlesAtCloseEvent ==
    LET i == FirstEvent({"close"})
    IN IF ctor # "ok" THEN closed.status = "none"
       ELSE IF i = 0 THEN closed = ClosedPending
       ELSE closed = [status |-> "resolved", closeCode |-> events[i].code,
                      reason |-> events[i].reason]

\* C3 witness: close(), the signal, the inbound cancel and the outbound abort
\* all asked for the close, and `closed` carries the reported code and reason.
C3_Witness ==
    /\ closed.status = "resolved" /\ closed.closeCode = 3000 /\ closed.reason = "bye"
    /\ closeCalls > 0 /\ signal.aborted /\ rCancelled /\ wAbort # "none"

IsPayload(result) == ~result.done /\ ~result.failed

\* Payloads the consumer's reads have returned, in order.
ReadValues ==
    LET got == SelectSeq(readLog, IsPayload)
    IN [i \in 1..Len(got) |-> got[i].value]

\* C4: successive reads of the inbound stream return the payloads of the
\* delivered message events in delivery order, one payload per read, nothing
\* dropped, repeated, merged or split: what was read is a prefix of what was
\* delivered; while the consumer has not cancelled, what was read followed by
\* what is queued is exactly what was delivered; a read waits only when
\* nothing is queued; no read fails, and no payload follows a completion.
C4_ReadsInArrivalOrder ==
    LET msgs == MessagesOf(events)
        got == ReadValues
    IN /\ Len(got) <= Len(msgs)
       /\ got = SubSeq(msgs, 1, Len(got))
       /\ ~rCancelled => got \o rQueue = msgs
       /\ rPending > 0 => rQueue = <<>> /\ rState = "readable"
       /\ \A i \in 1..Len(readLog) :
             /\ ~readLog[i].failed
             /\ readLog[i].done => \A j \in i..Len(readLog) : readLog[j].done

\* C4 witness: two messages were delivered and two reads returned them.
C4_Witness ==
    /\ Len(MessagesOf(events)) = 2
    /\ readLog = <<ChunkResult(Payload(1)), ChunkResult(Payload(2))>>

IsOk(result) == result.ok

\* Chunks of the writes reported complete, in order.
CompletedChunks ==
    LET done == SelectSeq(wResults, IsOk)
    IN [i \in 1..Len(done) |-> done[i].chunk]

\* C5: the socket's send is invoked once per written chunk, in the order
\* written, and a write is reported complete only after its chunk was passed
\* to send: the sends are the first chunks written, each once; the completed
\* writes are a prefix of the sends; and while the outbound stream is
\* writable and not being closed, every chunk written is sent or queued
\* behind the one in flight, and no write has failed without its send failing.
C5_WritesReachSendInOrder ==
    /\ \A i \in 1..Len(sent) : sent[i] = Chunk(i)
    /\ Len(CompletedChunks) <= Len(sent)
    /\ CompletedChunks = SubSeq(sent, 1, Len(CompletedChunks))
    /\ (wState = "writable" /\ wClose = "none") =>
          /\ Len(sent) + Len(wQueue) = WritesIssued
          /\ wInFlight = NoWrite => wQueue = <<>>
          /\ \A i \in 1..Len(wResults) : wResults[i].ok

\* C5 witness: two chunks written on an open connection, both sent in order
\* and both writes complete.
C5_Witness ==
    /\ wsState = "open"
    /\ sent = <<Chunk(1), Chunk(2)>>
    /\ wResults = <<WriteOk(Chunk(1)), WriteOk(Chunk(2))>>

\* This step delivers the socket's close event.
CloseEventStep ==
    /\ Len(events') = Len(events) + 1
    /\ events'[Len(events')].type = "close"

\* The close event this step delivers.
DeliveredClose == events'[Len(events')]

NoArguments == [code |-> NoCode, reason |-> None]

\* What a close event leaves behind on the streams of a connection that was
\* opened: the inbound stream completes (at once, or once its queue is
\* read), every waiting read completes with done, nothing is errored; the
\* outbound stream is errored, with an undefined reason unless it had failed
\* before; `closed` carries the event's code and reason.
StreamsAfterCloseStep ==
    /\ closed' = [status |-> "resolved", closeCode |-> DeliveredClose.code,
                  reason |-> DeliveredClose.reason]
    /\ rState' = (IF rQueue = <<>> \/ rState = "closed" THEN "closed" ELSE "readable")
    /\ rState' = "readable" => rCloseRequested'
    /\ rPending' = 0
    /\ readLog' = readLog \o Repeat(DoneResult, rPending)
    /\ rQueue' = rQueue
    /\ wState' = "errored"
    /\ wState = "writable" =>
          wStoredError' = None /\ wCompletion' = [status |-> "rejected", reason |-> None]

\* The same, as a condition on the states after the close event.
StreamsAfterClose ==
    /\ closed.status = "resolved"
    /\ rState = "closed" \/ (rState = "readable" /\ rCloseRequested /\ rQueue # <<>>)
    /\ rPending = 0
    /\ \A i \in 1..Len(readLog) : ~readLog[i].failed
    /\ wState = "errored"
    /\ wCompletion.status = "rejected"

\* C6: when an open socket delivers a close event (c, r) that no local party
\* asked for, then afterwards the inbound stream reports completion, not an
\* error, the outbound stream is in the error state, its completion failing
\* with undefined, and `closed` is resolved to {closeCode: c, reason: r}.
C6_RemoteClose ==
    /\ [][(CloseEventStep /\ wsState = "open" /\ closeRequests = <<>>)
             => StreamsAfterCloseStep]_vars
    /\ []((Delivered("open") /\ Delivered("close") /\ closeRequests = <<>>)
             => StreamsAfterClose)

\* C6 witness: the peer closed an open connection with 1001 "Going away"
\* while a read was waiting; the read completed with done.
C6_Witness ==
    /\ closeRequests = <<>>
    /\ closed = [status |-> "resolved", closeCode |-> 1001, reason |-> "Going away"]
    /\ rState = "closed" /\ readLog = <<DoneResult>>
    /\ wState = "errored" /\ wCompletion = [status |-> "rejected", reason |-> None]

\* This step fires the supplied signal for the first time on a constructed
\* adapter.
SignalFiresStep == ctor = "ok" /\ signal.supplied /\ ~signal.aborted /\ signal'.aborted

\* What close() with no options does to the socket and to everything else
\* observable.
CloseWithNoOptionsEffect ==
    /\ closeRequests' = Append(closeRequests, CloseArguments(DefaultCloseOptions))
    /\ wsState' = ReadyStateAfterClose(wsState)
    /\ UNCHANGED <<wsNegotiated, listeners, sent, events, promiseVars, handlerErrors,
                   inboundVars, outboundVars>>

\* The socket was asked to close once, by the signal or by close() with no
\* options, and by nobody else.
OnlySignalOrCloseAsked ==
    /\ closeRequests = <<NoArguments>>
    /\ (signal.aborted /\ closeCalls = 0) \/ (~signal.aborted /\ closeCalls = 1)

\* C7: firing the supplied signal and calling close() with no options lead
\* to the same observable outcome: the same close request to the socket (no
\* code, no reason) and nothing else changed; then, on the close event,
\* inbound completion, outbound error state and `closed` settled with the
\* event's code and reason.
C7_SignalEqualsClose ==
    [][/\ SignalFiresStep =>
            /\ CloseWithNoOptionsEffect
            /\ closeRequests'[Len(closeRequests')] = NoArguments
       /\ (CloseEventStep /\ Delivered("open") /\ OnlySignalOrCloseAsked)
            => StreamsAfterCloseStep]_vars

\* C7 witness: the signal alone asked for the close of an open connection;
\* the close event came back and settled everything.
C7_Witness ==
    /\ signal.aborted /\ closeCalls = 0 /\ closeRequests = <<NoArguments>>
    /\ Delivered("open")
    /\ closed = [status |-> "resolved", closeCode |-> 1000, reason |-> ""]
    /\ rState = "closed"
    /\ wState = "errored" /\ wCompletion = [status |-> "rejected", reason |-> None]

\* This step is the consumer cancelling the inbound stream.
CancelStep == ~rCancelled /\ rCancelled'

\* C8: cancelling the inbound stream of an open connection issues exactly
\* one close request, with no code and no reason, and leaves the outbound
\* stream unchanged; a writable outbound stream leaves the writable state
\* only by the socket's close event, which errors it (or by the producer's
\* own close or abort, or a failed send).
C8_CancelLeavesOutbound ==
    [][/\ (CancelStep /\ wsState = "open") =>
            /\ closeRequests' = Append(closeRequests, NoArguments)
            /\ wsState' = "closing"
            /\ UNCHANGED <<outboundVars, sent, promiseVars, events>>
       /\ (wState = "writable" /\ wState' # "writable") =>
            \/ CloseEventStep /\ wState' = "errored"
            \/ wAbort' # wAbort
            \/ wClose' # wClose
            \/ wInFlight.threw
       /\ (CloseEventStep /\ wState = "writable") => wState' = "errored"]_vars

\* C8 witness: the inbound stream was cancelled, the socket has the one close
\* request and is closing, and a chunk written after the cancel went out on
\* the still writable outbound stream.
C8_Witness ==
    /\ rCancelled /\ rState = "closed"
    /\ closeRequests = <<NoArguments>> /\ wsState = "closing"
    /\ ~Delivered("close")
    /\ wState = "writable" /\ wResults = <<WriteOk(Chunk(1))>>

\* This step is the producer's abort of the outbound stream taking effect.
AbortStep == wAbort = "none" /\ wAbort' # "none"

AbortRequest(reason) == [code |-> NoCode, reason |-> reason]

\* How many close requests the socket was given with exactly these arguments.
TimesAsked(req) == Cardinality({ i \in 1..Len(closeRequests) : closeRequests[i] = req })

\* C9: aborting the (writable) outbound stream of an open connection with
\* reason X makes the outbound completion fail with X, also after the close
\* event; sends the socket one close request with reason X and no code -- at
\* once, or as soon as the write in flight has settled -- and leaves the
\* inbound stream alone, which reports normal completion, not an error, when
\* the close event arrives.  (An abort made while the producer's own close is
\* in flight is absorbed by that close; the socket is then already closing.)
C9_AbortForwardsReason ==
    /\ [][(AbortStep /\ wsState = "open" /\ wState = "writable") =>
             /\ wStoredError' \in AbortReasons
             /\ UNCHANGED <<inboundVars, promiseVars, sent, events>>
             /\ IF wInFlight = NoWrite
                THEN /\ wState' = "errored" /\ wAbort' = "inflight"
                     /\ closeRequests' = Append(closeRequests, AbortRequest(wStoredError'))
                     /\ wsState' = "closing"
                ELSE /\ wState' = "erroring" /\ wAbort' = "pending"
                     /\ UNCHANGED <<closeRequests, wsState>>]_vars
    /\ [](wAbort = "pending" =>
             /\ wState = "erroring" /\ wStoredError \in AbortReasons
             /\ wInFlight # NoWrite \/ wClose = "inflight")
    /\ []((wAbort \in {"inflight", "done"} /\ wClose # "done") =>
             /\ wState = "errored" /\ wStoredError \in AbortReasons
             /\ TimesAsked(AbortRequest(wStoredError)) = 1
             /\ wCompletion = (IF wAbort = "done"
                               THEN [status |-> "rejected", reason |-> wStoredError]
                               ELSE CompletionPending))
    /\ []((wAbort # "none" /\ Delivered("close")) =>
             /\ rState = "closed" \/ (rState = "readable" /\ rCloseRequested /\ rQueue # <<>>)
             /\ rPending = 0
             /\ \A i \in 1..Len(readLog) : ~readLog[i].failed)

\* C9 witness: the outbound stream of an open connection was aborted with
\* "X"; the socket got close(undefined, "X") and closed with that reason; a
\* read then completed with done and the completion still fails with "X".
C9_Witness ==
    /\ wAbort = "done" /\ Delivered("close")
    /\ closeRequests = <<AbortRequest("X")>>
    /\ closed = [status |-> "resolved", closeCode |-> 1000, reason |-> "X"]
    /\ wCompletion = [status |-> "rejected", reason |-> "X"]
    /\ rState = "closed" /\ readLog = <<DoneResult>>

\* An error event was delivered before any open event.
ErrorBeforeOpen ==
    FirstEvent({"open", "error"}) # 0 /\ events[FirstEvent({"open", "error"})].type = "error"

\* C10: if the socket delivers an error event before any open event, then
\* `opened` is rejected and `closed` is untouched by the error: unsettled as
\* long as no close event is delivered, and settled with the reported code
\* and reason once one is.
C10_ErrorBeforeOpen ==
    ErrorBeforeOpen =>
        /\ opened = [status |-> "rejected", protocol |-> None, extensions |-> None]
        /\ rState = "none" /\ wState = "none"
        /\ IF Delivered("close")
           THEN closed = [status |-> "resolved",
                          closeCode |-> events[FirstEvent({"close"})].code,
                          reason |-> events[FirstEvent({"close"})].reason]
           ELSE closed = [status |-> "pending", closeCode |-> NoCode, reason |-> None]

\* C10 witness: the connection failed before opening and the socket then
\* reported its close.
C10_Witness ==
    /\ ErrorBeforeOpen /\ opened.status = "rejected"
    /\ closed = [status |-> "resolved", closeCode |-> 1001, reason |-> "Going away"]

\* This step is a call of close().
CloseCallStep == closeCalls' = closeCalls + 1

FailingSendStep == wInFlight' # wInFlight /\ wInFlight' # NoWrite /\ wInFlight'.threw

\* This step reports the write whose send raised to the producer.
FailedWriteSettlesStep == wInFlight # NoWrite /\ wInFlight.threw /\ wInFlight' # wInFlight

\* C12: when send() raises for a written chunk, that write is reported to the
\* producer as failed with the send's failure, and neither the failing send
\* nor the report issues a close request: the socket's lifecycle state, the
\* inbound stream, `opened` and `closed` are unchanged.  (The one close
\* request that can accompany the report is that of an abort the producer
\* made while the write was in flight, with the abort's reason.)
C12_SendFailureFailsWriteOnly ==
    [][/\ FailingSendStep =>
            /\ sent' = Append(sent, wInFlight'.chunk)
            /\ UNCHANGED <<closeRequests, wsState, events, promiseVars, inboundVars,
                           handlerErrors>>
       /\ FailedWriteSettlesStep =>
            /\ Len(wResults') > Len(wResults)
            /\ wResults'[Len(wResults) + 1] = WriteFailed(wInFlight.chunk, SendError)
            /\ wState' = "errored"
            /\ UNCHANGED <<sent, events, promiseVars, inboundVars, handlerErrors>>
            /\ IF wAbort = "pending"
               THEN /\ closeRequests' = Append(closeRequests, AbortRequest(wStoredError))
                    /\ wStoredError \in AbortReasons
               ELSE UNCHANGED <<closeRequests, wsState>>]_vars

\* C12 witness: the send of the first chunk raised; the write failed with
\* the send's failure and the connection is still open, nothing asked of it.
C12_Witness ==
    /\ wResults = <<WriteFailed(Chunk(1), SendError)>>
    /\ sent = <<Chunk(1)>>
    /\ wState = "errored" /\ wStoredError = SendError
    /\ closeRequests = <<>> /\ wsState = "open"
    /\ closed.status = "pending" /\ rState = "readable"

\* The socket closed without ever opening, and its close event was delivered.
ClosedWithoutOpening == Delivered("close") /\ ~Delivered("open")

SinkCloseStep == wClose # "inflight" /\ wClose' = "inflight"

\* C14: a socket close event moves the outbound stream to the error state
\* only when the stream was still writable, that is when neither a close nor
\* an abort of the producer had been started.  A graceful close by the
\* producer requests a socket close with no code and no reason once the
\* writes before it are sent; the stream then is closed and its completion
\* resolved, and stays so: the later close event does not error it.
C14_GracefulCloseStaysClosed ==
    /\ [][/\ SinkCloseStep =>
               /\ wState = "writable" /\ wQueue' = <<>> /\ wInFlight' = NoWrite
               /\ closeRequests' = Append(closeRequests, NoArguments)
               /\ wsState' = ReadyStateAfterClose(wsState)
          /\ (CloseEventStep /\ wState' # wState) =>
               /\ wState = "writable" /\ wClose = "none" /\ wAbort = "none"
               /\ wState' = "errored"
          /\ wState = "closed" =>
               /\ wState' = "closed"
               /\ UNCHANGED <<wCompletion, wStoredError>>]_vars
    /\ [](wClose = "done" =>
             /\ wState = "closed"
             /\ wCompletion = [status |-> "resolved", reason |-> None])

\* C14 witness: the producer wrote a chunk and closed the outbound stream;
\* the socket got the one close request, its close event was delivered, and
\* the outbound stream is closed, not errored.
C14_Witness ==
    /\ wClose = "done" /\ wResults = <<WriteOk(Chunk(1))>>
    /\ closeRequests = <<NoArguments>>
    /\ Delivered("close") /\ wsState = "closed"
    /\ closed = [status |-> "resolved", closeCode |-> 1000, reason |-> ""]
    /\ wState = "closed" /\ wCompletion = [status |-> "resolved", reason |-> None]

\* A close was requested of a connection that had opened.
CloseRequestedAfterOpen == Delivered("open") /\ closeRequests # <<>>

\* The inbound stream has completed: it is closed, or it closes as soon as
\* the payloads still queued are read.
InboundCompleted == rState = "closed" \/ (rState = "readable" /\ rCloseRequested)

\* C15: with a fair socket, every close request made on an opened connection
\* -- by close(), the signal, the inbound cancel, the outbound close or the
\* outbound abort -- leads to a state where the socket is closed, `closed`
\* is resolved, the inbound stream has completed and the outbound stream is
\* no longer writable.
C15_CloseRequestLeadsToClosed ==
    CloseRequestedAfterOpen ~>
        /\ wsState = "closed"
        /\ closed.status = "resolved"
        /\ InboundCompleted
        /\ wState \in {"errored", "closed"}

\* C15 witness: an opened connection was asked to close, the close event
\* came back with the request's code and reason and settled everything.
C15_Witness ==
    /\ CloseRequestedAfterOpen /\ closeCalls = 1 /\ Len(closeRequests) = 1
    /\ wsState = "closed"
    /\ closed = [status |-> "resolved", closeCode |-> 3000, reason |-> "bye"]
    /\ rState = "closed" /\ wState = "errored"

\* No close(), no cancel and no close or abort of the outbound stream takes
\* effect in this step.
NoOtherCloserStep ==
    /\ closeCalls' = closeCalls
    /\ rCancelled' = rCancelled
    /\ wClose' = wClose
    /\ wAbort' = wAbort

\* C16: when the supplied signal fires, at whatever point of the lifecycle
\* after construction (connecting, open, closing or closed), the socket is
\* given exactly one close request, the one close() with no options makes;
\* the one-shot listener is then gone, and once the signal has fired no
\* step adds a close request unless close(), the inbound cancel or the
\* outbound close or abort makes it: firing the signal again adds none.
C16_SignalClosesOnce ==
    /\ [][/\ SignalFiresStep =>
                /\ closeRequests' = Append(closeRequests, NoArguments)
                /\ wsState' = ReadyStateAfterClose(wsState)
                /\ closeCalls' = closeCalls
                /\ ~signal'.listener
          /\ (signal.aborted /\ NoOtherCloserStep) => closeRequests' = closeRequests]_vars
    /\ [](ctor = "ok" => (signal.listener <=> (signal.supplied /\ ~signal.aborted)))

\* C16 witness: the signal fired while the socket was still connecting; the
\* socket has the one close request and is closing.
C16_Witness ==
    /\ signal.aborted /\ ~signal.listener /\ closeCalls = 0
    /\ closeRequests = <<NoArguments>>
    /\ wsState = "closing" /\ events = <<>>

\* This step delivers the socket's open event.
OpenEventStep ==
    /\ Len(events') = Len(events) + 1
    /\ events'[Len(events')].type = "open"

\* The listeners of the two streams: message and close of the inbound
\* stream, close of the outbound stream.
ListenersOfStreams == {"message", "close:readable", "close:writable"}

\* C17: the inbound and outbound streams exist only if the open event has
\* been delivered, and always both or neither; the streams' message and
\* close listeners are registered only from the open event on, all three
\* together, never while the socket is connecting; and at most one pair of
\* streams is constructed: streams come into being only in the step that
\* delivers the open event, that step finds none, and there is one such step.
C17_StreamsOnlyAfterOpen ==
    /\ []((rState # "none" \/ wState # "none") => Delivered("open"))
    /\ [](rState = "none" <=> wState = "none")
    /\ []((listeners \cap ListenersOfStreams # {}) =>
             (Delivered("open") /\ ListenersOfStreams \subseteq listeners))
    /\ [](wsState = "connecting" =>
             /\ listeners \cap ListenersOfStreams = {}
             /\ rState = "none" /\ wState = "none" /\ opened.status = "pending")
    /\ [](Cardinality({ i \in 1..Len(events) : events[i].type = "open" }) <= 1)
    /\ [][/\ (rState # rState' /\ rState = "none") \/ (wState # wState' /\ wState = "none")
                => OpenEventStep /\ rState' = "readable" /\ wState' = "writable"
          /\ OpenEventStep =>
                /\ rState = "none" /\ wState = "none"
                /\ listeners \cap ListenersOfStreams = {}
                /\ rQueue' = <<>> /\ wQueue' = <<>>]_vars

\* C17 witness: the open event was delivered; both streams exist and their
\* three listeners are registered next to the constructor's.
C17_Witness ==
    /\ Delivered("open") /\ wsState = "open"
    /\ opened = [status |-> "resolved", protocol |-> "mqtt", extensions |-> "deflate"]
    /\ rState = "readable" /\ wState = "writable"
    /\ listeners = {"open", "error", "close:closed", "message", "close:readable",
                    "close:writable"}

\* This step delivers the socket's error event.
ErrorEventStep ==
    /\ Len(events') = Len(events) + 1
    /\ events'[Len(events')].type = "error"

\* C18: an error event delivered after the open event changes nothing by
\* itself: `opened` keeps its resolved value, the inbound stream its state
\* and queue, the outbound stream its state, `closed` stays unsettled, no
\* listener is added, nothing is sent and no close request is made.  The
\* outbound stream is errored with an undefined reason by the close event
\* only.
C18_ErrorAfterOpenChangesNothing ==
    /\ [][(ErrorEventStep /\ Delivered("open")) =>
             /\ opened.status = "resolved" /\ closed.status = "pending"
             /\ UNCHANGED <<promiseVars, inboundVars, outboundVars, handlerErrors>>
             /\ UNCHANGED <<closeRequests, sent, listeners, wsNegotiated>>]_vars
    /\ []((wState = "errored" /\ wStoredError = None) => Delivered("close"))
    /\ []((Delivered("open") /\ Delivered("error") /\ ~Delivered("close")) =>
             /\ closed.status = "pending"
             /\ (wClose = "none" /\ wAbort = "none" /\ \A i \in 1..Len(wResults) : wResults[i].ok)
                   => wState = "writable")

\* C18 witness: an opened connection received a message and then an error
\* event; the payload is still queued, the outbound stream still writable,
\* `closed` still pending and the socket was not asked to close.
C18_Witness ==
    /\ Len(events) = 3 /\ events[1].type = "open" /\ events[3].type = "error"
    /\ opened.status = "resolved" /\ closed.status = "pending"
    /\ rState = "readable" /\ rQueue = <<Payload(1)>>
    /\ wState = "writable" /\ closeRequests = <<>>

\* This step is a read of the inbound stream.
ReadStep == Len(readLog') + rPending' = Len(readLog) + rPending + 1

\* How many payloads the first n reads returned.
PayloadsAmong(n) == Len(SelectSeq(SubSeq(readLog, 1, n), IsPayload))

\* C19: payloads delivered before the close event and not yet read are not
\* lost by it.  The close event leaves the queue as it is; as long as the
\* consumer does not cancel, what was read followed by what is queued is
\* what was delivered; after the close event each read returns the oldest
\* queued payload, and done only when none is left: a done result has every
\* delivered payload before it.
C19_QueuedPayloadsSurviveClose ==
    /\ [][/\ CloseEventStep => rQueue' = rQueue /\ UNCHANGED rCancelled
          /\ (ReadStep /\ Delivered("close") /\ rQueue # <<>>) =>
                /\ readLog' = Append(readLog, ChunkResult(Head(rQueue)))
                /\ rQueue' = Tail(rQueue)
          /\ (ReadStep /\ Delivered("close") /\ rQueue = <<>> /\ rState # "none") =>
                readLog' = Append(readLog, DoneResult)]_vars
    /\ []((Delivered("open") /\ Delivered("close") /\ ~rCancelled) =>
             /\ ReadValues \o rQueue = MessagesOf(events)
             /\ rPending = 0
             /\ IF rQueue = <<>> THEN rState = "closed"
                ELSE rState = "readable" /\ rCloseRequested)
    /\ [](~rCancelled =>
             \A i \in 1..Len(readLog) :
                readLog[i].done =>
                   /\ Delivered("close")
                   /\ PayloadsAmong(i) = Len(MessagesOf(events)))

\* C19 witness: two payloads were delivered, then the close event; one
\* payload has been read and the other is still queued for the next read.
C19_Witness ==
    /\ Delivered("close") /\ ~rCancelled
    /\ MessagesOf(events) = <<Payload(1), Payload(2)>>
    /\ readLog = <<ChunkResult(Payload(1))>> /\ rQueue = <<Payload(2)>>
    /\ rState = "readable" /\ rCloseRequested

\* C20: no socket event handler fails, in any interleaving of socket events
\* and stream operations: no exception ever escapes the open, message, error
\* or close listeners -- in particular not from the message listener when a
\* message event is delivered after the consumer has cancelled the inbound
\* stream and before the close event.
C20_NoHandlerFails == handlerErrors = 0

====
